---- MODULE Spec2Model ----
(***************************************************************************)
(* A model of tpx3_histogram.cpp: the receive loop of TPX3HistogramApp,    *)
(* the header/payload decoding of process_data_line, the saturating merge  *)
(* of HistogramData::add_histogram and the file written by                 *)
(* HistogramProcessor::save_histogram_to_file.                             *)
(*                                                                         *)
(* Widths are scaled so that the arithmetic stays inside TLC's integers:   *)
(* a byte has ByteBase values (256 in the build), a uint32_t is four such  *)
(* bytes, and uint64_t / size_t hold WideFactor times as many values as a  *)
(* uint32_t (2^32 times in the build).  The header text is JSON parsed by  *)
(* json-c, a library outside the repository; here one byte of text stands  *)
(* for one member of the JSON object (see JsonMember).                     *)
(***************************************************************************)
EXTENDS Integers, Sequences, FiniteSets, TLC

VARIABLES
    pc,               \* position of the pipeline thread: "start", "recv", "payload", "done"
    exit_code,        \* value returned by run(), -1 while it is running
    connected_,       \* NetworkClient::connected_
    line_buffer,      \* the first total_read bytes of run()'s line_buffer
    total_read,       \* run()'s total_read
    running_sum_,     \* HistogramProcessor::running_sum_: << >> is nullptr, else <<histogram>>
    file,             \* lines of data/tof-histogram-running-sum.txt, << >> before the first write
    frame_histogram,  \* process_data_line's frame_histogram while receive_exact runs
    tof_bytes,        \* the bytes of tof_bin_values filled so far (binary_read of them)
    newline_idx,      \* index of newline_pos in line_buffer while receive_exact runs, else 0
    wire,             \* bytes the peer has sent and recv() has not yet delivered
    budget,           \* items the peer may still send
    sum_exact,        \* history: per bin, the unbounded sum of the merged samples
    save_failed,      \* history: the last attempt to open the output file failed
    n_decoded,        \* history: samples decoded so far
    n_rejected,       \* history: merges rejected so far
    expected,         \* history: << >>, or <<lead kind, sample>> of the one frame sent
    mutex_,           \* HistogramProcessor::mutex_: "free", or the thread that holds it
    add_i,            \* add_histogram's loop index i while the loop runs
    reader_pc,        \* position of a thread that reads the running sum: "idle", "read"
    reader_seen,      \* what that thread has read of the bins since get_running_sum
    ev                \* history: what the last step did

\* The state of the pipeline thread and of the objects it owns.
app == <<pc, exit_code, connected_, line_buffer, total_read, running_sum_, file,
         frame_histogram, tof_bytes, newline_idx>>

history == <<sum_exact, save_failed, n_decoded, n_rejected>>

reader == <<mutex_, add_i, reader_pc, reader_seen>>

vars == <<app, wire, budget, history, expected, reader, ev>>

-----------------------------------------------------------------------------
(* Bounds of the model *)

ByteBase == 16
WideFactor == 2
MAX_BUFFER_SIZE == 10
MaxItems == 3
MaxWire == 13

(* Program constants *)

NUL == 0
NL == 10
SizeofUint32 == 4

UINT32_MOD == ByteBase * ByteBase * ByteBase * ByteBase
UINT32_MAX == UINT32_MOD - 1
UINT64_MOD == WideFactor * UINT32_MOD
UINT64_MAX == UINT64_MOD - 1

Min(a, b) == IF a < b THEN a ELSE b

-----------------------------------------------------------------------------
(* HistogramData *)

Zeros(n) == [i \in 1..n |-> 0]

\* HistogramData(size_t bin_size, DataType type): bin_size + 1 edges and
\* bin_size values of the width of the type.
HistogramData(bin_size, type) ==
    [bin_size       |-> bin_size,
     data_type      |-> type,
     bin_edges      |-> Zeros(bin_size + 1),
     bin_values_32  |-> IF type = "FRAME_DATA" THEN Zeros(bin_size) ELSE << >>,
     bin_values_64  |-> IF type = "FRAME_DATA" THEN << >> ELSE Zeros(bin_size)]

\* The constructor is called with an int converted to size_t: a negative
\* bin_size becomes a size no vector can take and resize throws
\* std::length_error.
ConstructorThrows(bin_size) == bin_size < 0

\* int -> size_t conversion
ToSizeT(x) == x % UINT64_MOD

\* calculate_bin_edges: (bin_offset + (i * bin_width)) is evaluated in size_t,
\* then scaled by the clock period; the edge is kept in clock ticks.
EdgeTicks(i, bin_width, bin_offset) ==
    (ToSizeT(bin_offset) + ((i * ToSizeT(bin_width)) % UINT64_MOD)) % UINT64_MOD

\* calculate_bin_edges that stops one edge short.
calculate_bin_edges_short(h, bin_width, bin_offset) ==
    [h EXCEPT !.bin_edges =
        [i \in 1..h.bin_size |-> EdgeTicks(i - 1, bin_width, bin_offset)]]

calculate_bin_edges(h, bin_width, bin_offset) ==
    [h EXCEPT !.bin_edges =
        [i \in 1..Len(h.bin_edges) |-> EdgeTicks(i - 1, bin_width, bin_offset)]]

\* add_histogram, lines 175-181: the two checks that throw std::invalid_argument
AddThrows(self, other) ==
    \/ other.data_type # "FRAME_DATA"
    \/ self.data_type # "RUNNING_SUM"
    \/ other.bin_size # self.bin_size

\* AddBin without the overflow test: the sum wraps.
AddBin_wraps(a, b) == (a + b) % UINT64_MOD

\* add_histogram, lines 184-191: one bin, uint64_t addition with the overflow test
AddBin(a, b) ==
    LET new_value == (a + b) % UINT64_MOD
    IN  IF new_value < a THEN UINT64_MAX ELSE new_value

\* add_histogram, lines 183-192: the loop over the bins
add_histogram(self, other) ==
    [self EXCEPT !.bin_values_64 =
        [i \in 1..self.bin_size |-> AddBin(self.bin_values_64[i], other.bin_values_32[i])]]

-----------------------------------------------------------------------------
(* HistogramProcessor *)

\* save_histogram_to_file that leaves out the line of the last edge.
save_histogram_to_file_no_last_edge(histogram) ==
    <<[text |-> "# Time of Flight Histogram Data"],
      [text |-> "# Bins: ", bins |-> histogram.bin_size],
      [text |-> "#"]>>
    \o [i \in 1..histogram.bin_size |->
          [edge  |-> histogram.bin_edges[i],
           value |-> IF histogram.data_type = "RUNNING_SUM"
                     THEN histogram.bin_values_64[i]
                     ELSE histogram.bin_values_32[i]]]

\* save_histogram_to_file: three comment lines, one line per bin with its left
\* edge and its value, and a last line with the last edge alone.
save_histogram_to_file(histogram) ==
    <<[text |-> "# Time of Flight Histogram Data"],
      [text |-> "# Bins: ", bins |-> histogram.bin_size],
      [text |-> "#"]>>
    \o [i \in 1..histogram.bin_size |->
          [edge  |-> histogram.bin_edges[i],
           value |-> IF histogram.data_type = "RUNNING_SUM"
                     THEN histogram.bin_values_64[i]
                     ELSE histogram.bin_values_32[i]]]
    \o <<[edge |-> histogram.bin_edges[histogram.bin_size + 1]]>>

\* save_running_sum: nothing without a running sum; the file keeps its content
\* when it cannot be opened (open_ok = FALSE).
save_running_sum(rs, old_file, open_ok) ==
    IF rs = << >> \/ ~open_ok THEN old_file ELSE save_histogram_to_file(rs[1])

\* A running sum made without the copy of the edges.
InitialRunningSum_without_edges(frame_data) ==
    HistogramData(frame_data.bin_size, "RUNNING_SUM")

\* process_frame, lines 380-391: the running sum made for the first frame,
\* with the frame's bin_size and a copy of its edges.
InitialRunningSum(frame_data) ==
    LET created == HistogramData(frame_data.bin_size, "RUNNING_SUM")
    IN  [created EXCEPT
            !.bin_edges = [i \in 1..Len(created.bin_edges) |->
                             IF i <= Len(frame_data.bin_edges)
                             THEN frame_data.bin_edges[i]
                             ELSE created.bin_edges[i]]]

\* process_frame that starts a new running sum when the bin sizes differ.
process_frame_restarts(rs, frame_data, old_file, open_ok) ==
    LET target == IF rs = << >> \/ rs[1].bin_size # frame_data.bin_size
                  THEN InitialRunningSum(frame_data) ELSE rs[1]
        merged == add_histogram(target, frame_data)
    IN  [running_sum |-> <<merged>>,
         thrown      |-> FALSE,
         file        |-> save_running_sum(<<merged>>, old_file, open_ok)]

\* process_frame that saves before it adds.
process_frame_saves_first(rs, frame_data, old_file, open_ok) ==
    LET target == IF rs = << >> THEN InitialRunningSum(frame_data) ELSE rs[1]
        thrown == AddThrows(target, frame_data)
        merged == IF thrown THEN target ELSE add_histogram(target, frame_data)
    IN  [running_sum |-> <<merged>>,
         thrown      |-> thrown,
         file        |-> save_running_sum(<<target>>, old_file, open_ok)]

\* process_frame: thrown is TRUE when add_histogram throws, which leaves the
\* function before save_running_sum.
process_frame(rs, frame_data, old_file, open_ok) ==
    LET target == IF rs = << >> THEN InitialRunningSum(frame_data) ELSE rs[1]
        thrown == AddThrows(target, frame_data)
        merged == IF thrown THEN target ELSE add_histogram(target, frame_data)
    IN  [running_sum |-> <<merged>>,
         thrown      |-> thrown,
         file        |-> IF thrown THEN old_file
                         ELSE save_running_sum(<<merged>>, old_file, open_ok)]

-----------------------------------------------------------------------------
(* The header record.  json-c parses the text of the line; in the model each  *)
(* byte of JSON text is one member of the object, and any other byte makes    *)
(* the text unparsable.                                                       *)

JsonKeys == {"frameNumber", "binSize", "binWidth", "binOffset"}

JsonMember(b) ==
    CASE b = 2  -> [key |-> "frameNumber", numeric |-> TRUE,  val |-> 7]
      [] b = 3  -> [key |-> "binSize",     numeric |-> TRUE,  val |-> 1]
      [] b = 4  -> [key |-> "binSize",     numeric |-> TRUE,  val |-> 2]
      [] b = 5  -> [key |-> "binWidth",    numeric |-> TRUE,  val |-> 1]
      [] b = 6  -> [key |-> "binOffset",   numeric |-> TRUE,  val |-> 0]
      [] b = 7  -> [key |-> "binWidth",    numeric |-> FALSE, val |-> 0]
      [] b = 8  -> [key |-> "binSize",     numeric |-> TRUE,  val |-> 0]
      [] b = 9  -> [key |-> "binSize",     numeric |-> TRUE,  val |-> -1]
      [] b = 11 -> [key |-> "binWidth",    numeric |-> TRUE,  val |-> -1]
      [] b = 12 -> [key |-> "binOffset",   numeric |-> TRUE,  val |-> -1]
      [] b = 13 -> [key |-> "binWidth",    numeric |-> TRUE,  val |-> 2]
      [] b = 14 -> [key |-> "binOffset",   numeric |-> TRUE,  val |-> 3]
      [] OTHER  -> [key |-> "",            numeric |-> FALSE, val |-> 0]

IsJsonText(b) == JsonMember(b).key # ""

\* The C string at the start of the buffer: the bytes before the first NUL.
CString(bytes) ==
    IF \E i \in 1..Len(bytes) : bytes[i] = NUL
    THEN SubSeq(bytes, 1, (CHOOSE i \in 1..Len(bytes) :
                              /\ bytes[i] = NUL
                              /\ \A j \in 1..(i - 1) : bytes[j] # NUL) - 1)
    ELSE bytes

\* json_tokener_parse: << >> is NULL, else <<object>>; a later member with the
\* same key replaces an earlier one.
json_tokener_parse(str) ==
    IF str = << >> \/ \E i \in 1..Len(str) : ~IsJsonText(str[i])
    THEN << >>
    ELSE <<[k \in {JsonMember(str[i]).key : i \in 1..Len(str)} |->
              LET last == CHOOSE i \in 1..Len(str) :
                              /\ JsonMember(str[i]).key = k
                              /\ \A j \in (i + 1)..Len(str) : JsonMember(str[j]).key # k
              IN  JsonMember(str[last])]>>

json_object_object_get_ex(json, key) == key \in DOMAIN json

\* json_object_get_int: the integer of a numeric member, 0 for any other type.
json_object_get_int(member) == IF member.numeric THEN member.val ELSE 0

\* process_data_line, lines 563-566
AllFieldsPresent(json) == \A k \in JsonKeys : json_object_object_get_ex(json, k)

-----------------------------------------------------------------------------
(* Payload decoding *)

Digit(x, k) ==
    CASE k = 0 -> x % ByteBase
      [] k = 1 -> (x \div ByteBase) % ByteBase
      [] k = 2 -> (x \div (ByteBase * ByteBase)) % ByteBase
      [] k = 3 -> (x \div (ByteBase * ByteBase * ByteBase)) % ByteBase

\* The uint32_t that memcpy leaves in tof_bin_values[i] on the little-endian host.
LoadHost(bytes, i) ==
    bytes[SizeofUint32 * i + 1]
    + bytes[SizeofUint32 * i + 2] * ByteBase
    + bytes[SizeofUint32 * i + 3] * ByteBase * ByteBase
    + bytes[SizeofUint32 * i + 4] * ByteBase * ByteBase * ByteBase

\* A byte swap that swaps nothing.
bswap32_identity(x) == x

\* __builtin_bswap32
bswap32(x) ==
    Digit(x, 0) * ByteBase * ByteBase * ByteBase
    + Digit(x, 1) * ByteBase * ByteBase
    + Digit(x, 2) * ByteBase
    + Digit(x, 3)

\* process_data_line, lines 610-613: the frame with its bin values set
SetBinValues(frame, bytes) ==
    [frame EXCEPT !.bin_values_32 =
        [i \in 1..frame.bin_size |-> bswap32(LoadHost(bytes, i - 1))]]

FirstNewline(bytes) ==
    CHOOSE i \in 1..Len(bytes) :
        /\ bytes[i] = NL
        /\ \A j \in 1..(i - 1) : bytes[j] # NL

HasNewline(bytes) == \E i \in 1..Len(bytes) : bytes[i] = NL

\* CopyBuffered that starts at the newline instead of after it.
CopyBuffered_from_newline(bytes, nl, binary_needed) ==
    LET remaining == Len(bytes) - nl
        to_copy == IF remaining > 0 THEN Min(remaining, binary_needed) ELSE 0
    IN  SubSeq(bytes, nl, nl + to_copy - 1)

\* process_data_line, lines 587-595: the bytes that follow the newline in the
\* buffer are the first bytes of the payload.
CopyBuffered(bytes, nl, binary_needed) ==
    LET remaining == Len(bytes) - nl
        to_copy == IF remaining > 0 THEN Min(remaining, binary_needed) ELSE 0
    IN  SubSeq(bytes, nl + 1, nl + to_copy)

\* process_data_line up to the call of receive_exact, for the line that ends
\* at index nl of the buffer bytes:
\*   "null"    json_tokener_parse returned NULL              (line 556)
\*   "missing" one of the four members is absent             (line 569)
\*   "throw"   the HistogramData constructor threw           (line 578, caught 633)
\*   "frame"   a frame histogram exists, to_copy payload bytes were taken
\*             from the buffer and binary_needed are needed in all
ParseHeader(bytes, nl) ==
    LET parsed == json_tokener_parse(CString(SubSeq(bytes, 1, nl - 1)))
        json == parsed[1]
        bin_size == json_object_get_int(json["binSize"])
        bin_width == json_object_get_int(json["binWidth"])
        bin_offset == json_object_get_int(json["binOffset"])
        binary_needed == bin_size * SizeofUint32
        none == [kind |-> "null", numeric |-> FALSE, frame |-> << >>,
                 binary_needed |-> 0, copied |-> << >>]
    IN  IF parsed = << >> THEN none
        ELSE IF ~AllFieldsPresent(json) THEN [none EXCEPT !.kind = "missing"]
        ELSE IF ConstructorThrows(bin_size)
             THEN [none EXCEPT !.kind = "throw",
                               !.numeric = \A k \in JsonKeys : json[k].numeric]
        ELSE [kind          |-> "frame",
              numeric       |-> \A k \in JsonKeys : json[k].numeric,
              frame         |-> <<calculate_bin_edges(
                                    HistogramData(bin_size, "FRAME_DATA"),
                                    bin_width, bin_offset)>>,
              binary_needed |-> binary_needed,
              copied        |-> CopyBuffered(bytes, nl, binary_needed)]

-----------------------------------------------------------------------------
(* The peer and the socket *)

\* htonl on the peer: the four bytes of a count, most significant first.
BigEndian(v) == <<Digit(v, 3), Digit(v, 2), Digit(v, 1), Digit(v, 0)>>

RECURSIVE Payload(_)
Payload(values) ==
    IF values = << >> THEN << >>
    ELSE BigEndian(Head(values)) \o Payload(Tail(values))

\* A header line and the payload that follows it.
Frame(text, values) == text \o <<NL>> \o Payload(values)

\* What the peer sends, one item at a time:
\*   one-bin frames, a two-bin frame whose payload holds a newline byte,
\*   a one-bin frame whose binWidth is a string, a two-bin frame whose header
\*   is cut short, headers that announce no bin and -1 bins, a two-bin frame
\*   with half its payload, and a line that is no JSON.
Items ==
    { Frame(<<2, 3, 5, 6>>, <<5>>),
      Frame(<<2, 3, 5, 6>>, <<UINT32_MAX>>),
      Frame(<<2, 4, 5, 6>>, <<1, NL>>),
      Frame(<<2, 3, 7, 6>>, <<1>>),
      Frame(<<2, 4>>, <<1, 1>>),
      Frame(<<2, 8, 5, 6>>, << >>),
      Frame(<<2, 9, 5, 6>>, << >>),
      Frame(<<2, 4, 5, 6>>, <<1>>),
      <<2, 1, NL>> }

\* NetworkClient::receive(buffer, max_size): the values recv() can return with
\* the bytes it delivers, and connected_ afterwards.  recv() returns 0 when the
\* peer has closed (or when max_size is 0), -1 with EAGAIN when nothing is
\* there to read, -1 with another errno at any time.
receive(max_size) ==
    IF ~connected_
    THEN {[bytes_read |-> -1, data |-> << >>, connected |-> FALSE, kind |-> "unconnected"]}
    ELSE {[bytes_read |-> n, data |-> SubSeq(wire, 1, n), connected |-> TRUE,
           kind |-> "data"] : n \in 1..Min(max_size, Len(wire))}
         \cup (IF wire = << >> \/ max_size = 0
               THEN {[bytes_read |-> 0, data |-> << >>, connected |-> FALSE,
                      kind |-> "closed"]}
               ELSE {})
         \cup (IF wire = << >>
               THEN {[bytes_read |-> -1, data |-> << >>, connected |-> TRUE,
                      kind |-> "again"]}
               ELSE {})
         \cup {[bytes_read |-> -1, data |-> << >>, connected |-> FALSE,
                kind |-> "error"]}

-----------------------------------------------------------------------------
(* TPX3HistogramApp *)

NoEvent ==
    [op |-> "init", recv |-> "none", line |-> "none", numeric |-> FALSE,
     copied |-> 0, sample |-> << >>, merge |-> "none", reset |-> FALSE]

\* The test of line 529 one byte later.
BufferFull_late(n) == n >= MAX_BUFFER_SIZE

\* run, lines 521-533: the bytes after the newline move to the start of the
\* buffer; a buffer with MAX_BUFFER_SIZE - 1 bytes is emptied.
BufferFull(n) == n >= MAX_BUFFER_SIZE - 1

Remaining(bytes, nl) == SubSeq(bytes, nl + 1, Len(bytes))

KeepBuffer(bytes) ==
    /\ line_buffer' = IF BufferFull(Len(bytes)) THEN << >> ELSE bytes
    /\ total_read' = IF BufferFull(Len(bytes)) THEN 0 ELSE Len(bytes)

\* The end of process_data_line once the payload is complete (lines 609-638)
\* and of the loop body of run (lines 521-533).
FinishFrame(bytes, nl, frame, payload, copied, e) ==
    \E open_ok \in BOOLEAN :
        LET sample == SetBinValues(frame, payload)
            r == process_frame(running_sum_, sample, file, open_ok)
        IN  /\ r.thrown => open_ok
            /\ running_sum_' = r.running_sum
            /\ file' = r.file
            /\ save_failed' = IF r.thrown THEN save_failed ELSE ~open_ok
            /\ sum_exact' =
                 IF r.thrown THEN sum_exact
                 ELSE [i \in 1..sample.bin_size |->
                         (IF i \in DOMAIN sum_exact THEN sum_exact[i] ELSE 0)
                         + sample.bin_values_32[i]]
            /\ n_decoded' = n_decoded + 1
            /\ n_rejected' = IF r.thrown THEN n_rejected + 1 ELSE n_rejected
            /\ expected' = expected
            /\ KeepBuffer(Remaining(bytes, nl))
            /\ frame_histogram' = << >>
            /\ tof_bytes' = << >>
            /\ newline_idx' = 0
            /\ pc' = "recv"
            /\ ev' = [e EXCEPT !.sample = <<sample>>,
                               !.copied = copied,
                               !.merge = IF r.thrown THEN "rejected" ELSE "merged",
                               !.reset = BufferFull(Len(Remaining(bytes, nl)))]

\* run, line 504: the loop ends on any result of receive that is not positive.
LoopBreaks(bytes_read) == bytes_read <= 0

\* receive_exact that takes a result of 0 for progress.
ReceiveExactFails_negative(bytes) == bytes < 0

\* receive_exact, line 341: it fails on any result of receive that is not positive.
ReceiveExactFails(bytes) == bytes <= 0

\* receive_exact that writes every piece at the start of the destination.
Accumulate_overwrites(buffer, data) == data

\* receive_exact, lines 339 and 345: receive writes at buffer + total_received
\* and total_received grows by the bytes received.
Accumulate(buffer, data) == buffer \o data

\* run, line 488
Connect ==
    /\ pc = "start"
    /\ \/ /\ connected_' = TRUE
          /\ pc' = "recv"
          /\ exit_code' = exit_code
       \/ /\ connected_' = FALSE
          /\ pc' = "done"
          /\ exit_code' = 1
    /\ ev' = [NoEvent EXCEPT !.op = "connect"]
    /\ UNCHANGED <<line_buffer, total_read, running_sum_, file, frame_histogram,
                   tof_bytes, newline_idx, wire, budget, history, expected,
                   reader>>

\* The peer sends one more item.
Send ==
    /\ pc \in {"recv", "payload"}
    /\ budget > 0
    /\ \E item \in Items :
          /\ Len(wire) + Len(item) <= MaxWire
          /\ wire' = wire \o item
    /\ budget' = budget - 1
    /\ ev' = [NoEvent EXCEPT !.op = "send"]
    /\ UNCHANGED <<pc, exit_code, connected_, line_buffer, total_read, running_sum_,
                   file, frame_histogram, tof_bytes, newline_idx, history, expected,
                   reader>>

\* One iteration of the loop of run (lines 498-534) up to the point where
\* process_data_line calls receive_exact, or to the end of the iteration.
HeaderRecv ==
    /\ pc = "recv"
    /\ connected_
    /\ UNCHANGED reader
    /\ \E r \in receive(MAX_BUFFER_SIZE - total_read - 1) :
        LET bytes == line_buffer \o r.data
            e == [NoEvent EXCEPT !.op = "header_recv", !.recv = r.kind]
        IN  /\ connected_' = r.connected
            /\ wire' = SubSeq(wire, Len(r.data) + 1, Len(wire))
            /\ budget' = budget
            /\ IF LoopBreaks(r.bytes_read)
               THEN /\ pc' = "done"
                    /\ exit_code' = 0
                    /\ ev' = e
                    /\ UNCHANGED <<line_buffer, total_read, running_sum_, file,
                                   frame_histogram, tof_bytes, newline_idx,
                                   history, expected>>
               ELSE /\ exit_code' = exit_code
                    /\ IF ~HasNewline(bytes)
                       THEN /\ KeepBuffer(bytes)
                            /\ pc' = "recv"
                            /\ ev' = [e EXCEPT !.reset = BufferFull(Len(bytes))]
                            /\ UNCHANGED <<running_sum_, file, frame_histogram,
                                           tof_bytes, newline_idx, history, expected>>
                       ELSE LET nl == FirstNewline(bytes)
                                h == ParseHeader(bytes, nl)
                                el == [e EXCEPT !.line = h.kind, !.numeric = h.numeric]
                            IN  IF h.kind # "frame"
                                THEN /\ KeepBuffer(Remaining(bytes, nl))
                                     /\ pc' = "recv"
                                     /\ ev' = [el EXCEPT !.reset =
                                                 BufferFull(Len(Remaining(bytes, nl)))]
                                     /\ UNCHANGED <<running_sum_, file, frame_histogram,
                                                    tof_bytes, newline_idx, history, expected>>
                                ELSE IF Len(h.copied) < h.binary_needed
                                THEN /\ line_buffer' = bytes
                                     /\ total_read' = Len(bytes)
                                     /\ frame_histogram' = h.frame
                                     /\ tof_bytes' = h.copied
                                     /\ newline_idx' = nl
                                     /\ pc' = "payload"
                                     /\ ev' = [el EXCEPT !.copied = Len(h.copied)]
                                     /\ UNCHANGED <<running_sum_, file, history,
                                                    expected>>
                                ELSE FinishFrame(bytes, nl, h.frame[1], h.copied,
                                                 Len(h.copied), el)

\* One iteration of the loop of receive_exact (lines 338-346), called from
\* process_data_line (line 599); the last one runs process_data_line and the
\* loop body of run to their end.
PayloadRecv ==
    /\ pc = "payload"
    /\ UNCHANGED reader
    /\ LET binary_needed == frame_histogram[1].bin_size * SizeofUint32
       IN  \E r \in receive(binary_needed - Len(tof_bytes)) :
            LET e == [NoEvent EXCEPT !.op = "payload_recv", !.recv = r.kind]
                filled == Accumulate(tof_bytes, r.data)
            IN  /\ connected_' = r.connected
                /\ wire' = SubSeq(wire, Len(r.data) + 1, Len(wire))
                /\ budget' = budget
                /\ IF ReceiveExactFails(r.bytes_read)
                   THEN /\ pc' = "done"
                        /\ exit_code' = 0
                        /\ frame_histogram' = << >>
                        /\ tof_bytes' = << >>
                        /\ newline_idx' = 0
                        /\ ev' = e
                        /\ UNCHANGED <<line_buffer, total_read, running_sum_, file,
                                       history, expected>>
                   ELSE /\ exit_code' = exit_code
                        /\ IF Len(filled) < binary_needed
                           THEN /\ tof_bytes' = filled
                                /\ pc' = "payload"
                                /\ ev' = e
                                /\ UNCHANGED <<line_buffer, total_read, running_sum_,
                                               file, frame_histogram, newline_idx,
                                               history, expected>>
                           ELSE FinishFrame(line_buffer, newline_idx,
                                            frame_histogram[1], filled,
                                            Len(CopyBuffered(line_buffer, newline_idx,
                                                             binary_needed)), e)

\* The objects as constructed: no connection, no running sum, an empty buffer.
Constructed ==
    /\ pc = "start"
    /\ exit_code = -1
    /\ connected_ = FALSE
    /\ line_buffer = << >>
    /\ total_read = 0
    /\ running_sum_ = << >>
    /\ file = << >>
    /\ frame_histogram = << >>
    /\ tof_bytes = << >>
    /\ newline_idx = 0
    /\ sum_exact = << >>
    /\ save_failed = FALSE
    /\ n_decoded = 0
    /\ n_rejected = 0
    /\ mutex_ = "free"
    /\ add_i = 0
    /\ reader_pc = "idle"
    /\ reader_seen = << >>
    /\ ev = NoEvent

Init ==
    /\ Constructed
    /\ wire = << >>
    /\ budget = MaxItems
    /\ expected = << >>

Next == Connect \/ Send \/ HeaderRecv \/ PayloadRecv

Spec == Init /\ [][Next]_vars

-----------------------------------------------------------------------------
(* One frame on the wire, after at most one other line: the peer has sent    *)
(* everything before run() starts, and recv() delivers it in pieces of any   *)
(* size.                                                                     *)

\* A count whose four bytes differ.
MixedValue == ((1 * ByteBase + 2) * ByteBase + 3) * ByteBase + 4

StreamValues == {0, 1, NL, UINT32_MAX, MixedValue}

\* The lines that may precede the frame, by kind: none, an empty line, a line
\* that is no JSON, a line whose text ends at a NUL byte, a header cut short,
\* and a header whose binWidth is a string.
Leads ==
    { [kind |-> "none",       bytes |-> << >>],
      [kind |-> "empty",      bytes |-> <<NL>>],
      [kind |-> "garbage",    bytes |-> <<2, 1, NL>>],
      [kind |-> "nul",        bytes |-> <<NUL, 2, 3, 5, 6, NL>>],
      [kind |-> "truncated",  bytes |-> <<2, 4, NL>>],
      [kind |-> "nonnumeric", bytes |-> <<2, 3, 7, 6, NL>>] }

\* The text of a header with binWidth 1 and binOffset 0 for 1 or 2 bins.
HeaderText(bins) == <<2, IF bins = 1 THEN 3 ELSE 4, 5, 6>>

\* The sample a frame stands for (wire protocol): its counts in order, and
\* the edges bin_offset + i * bin_width, in clock ticks.
SampleOf(bins, bin_width, bin_offset, values) ==
    [bin_size       |-> bins,
     data_type      |-> "FRAME_DATA",
     bin_edges      |-> [i \in 1..(bins + 1) |-> bin_offset + (i - 1) * bin_width],
     bin_values_32  |-> values,
     bin_values_64  |-> << >>]

InitStream ==
    /\ Constructed
    /\ budget = 0
    /\ \E lead \in Leads, bins \in 1..2 :
          \E values \in [1..bins -> StreamValues] :
             /\ wire = lead.bytes \o Frame(HeaderText(bins), values)
             /\ expected = <<[lead |-> lead.kind,
                              sample |-> SampleOf(bins, 1, 0, values)]>>

NextStream == Connect \/ HeaderRecv \/ PayloadRecv

SpecStream == InitStream /\ [][NextStream]_vars

-----------------------------------------------------------------------------
(* One frame on the wire whose header gives a bin width and a bin offset of  *)
(* either sign.                                                              *)

EdgeWidths == {-1, 1, 2}

EdgeOffsets == {-1, 0, 3}

\* The text of a header for 1 or 2 bins with the given width and offset.
HeaderTextOf(bins, bin_width, bin_offset) ==
    <<2,
      IF bins = 1 THEN 3 ELSE 4,
      CASE bin_width = 1 -> 5 [] bin_width = -1 -> 11 [] bin_width = 2 -> 13,
      CASE bin_offset = 0 -> 6 [] bin_offset = -1 -> 12 [] bin_offset = 3 -> 14>>

InitEdges ==
    /\ Constructed
    /\ budget = 0
    /\ \E bins \in 1..2, bin_width \in EdgeWidths, bin_offset \in EdgeOffsets :
          \E values \in [1..bins -> {0, 1}] :
             /\ wire = Frame(HeaderTextOf(bins, bin_width, bin_offset), values)
             /\ expected = <<[lead |-> "none",
                              sample |-> SampleOf(bins, bin_width, bin_offset, values)]>>

NextEdges == Connect \/ HeaderRecv \/ PayloadRecv

SpecEdges == InitEdges /\ [][NextEdges]_vars

-----------------------------------------------------------------------------
(* process_frame bin by bin, next to a thread that reads the running sum     *)
(* through get_running_sum.  The samples are decoded two-bin frames.         *)

ReaderValues == {1, 2}

ReaderSamples == {SampleOf(2, 1, 0, values) : values \in [1..2 -> ReaderValues]}

\* process_frame, lines 378-391, and the checks of add_histogram (175-181):
\* the lock is taken, the running sum is made if there is none, and
\* add_histogram either throws, which releases the lock, or starts its loop.
ProcessFrameEnter ==
    /\ pc = "recv"
    /\ budget > 0
    /\ mutex_ = "free"
    /\ \E frame_data \in ReaderSamples :
          LET target == IF running_sum_ = << >>
                        THEN InitialRunningSum(frame_data) ELSE running_sum_[1]
          IN  /\ running_sum_' = <<target>>
              /\ IF AddThrows(target, frame_data)
                 THEN /\ mutex_' = "free"
                      /\ pc' = "recv"
                      /\ frame_histogram' = << >>
                      /\ n_rejected' = n_rejected + 1
                 ELSE /\ mutex_' = "pipeline"
                      /\ pc' = "add"
                      /\ frame_histogram' = <<frame_data>>
                      /\ n_rejected' = n_rejected
    /\ add_i' = 0
    /\ budget' = budget - 1
    /\ ev' = [NoEvent EXCEPT !.op = "process_frame"]
    /\ UNCHANGED <<exit_code, connected_, line_buffer, total_read, file, tof_bytes,
                   newline_idx, wire, sum_exact, save_failed, n_decoded, expected,
                   reader_pc, reader_seen>>

\* add_histogram, lines 183-192: one pass of the loop
AddHistogramStep ==
    /\ pc = "add"
    /\ add_i < running_sum_[1].bin_size
    /\ running_sum_' =
          <<[running_sum_[1] EXCEPT !.bin_values_64[add_i + 1] =
                AddBin(running_sum_[1].bin_values_64[add_i + 1],
                       frame_histogram[1].bin_values_32[add_i + 1])]>>
    /\ add_i' = add_i + 1
    /\ ev' = [NoEvent EXCEPT !.op = "add_histogram"]
    /\ UNCHANGED <<pc, exit_code, connected_, line_buffer, total_read, file,
                   frame_histogram, tof_bytes, newline_idx, wire, budget, history,
                   expected, mutex_, reader_pc, reader_seen>>

\* process_frame, lines 396-398: the running sum is saved and the lock released.
ProcessFrameLeave ==
    /\ pc = "add"
    /\ add_i = running_sum_[1].bin_size
    /\ \E open_ok \in BOOLEAN :
          /\ file' = save_running_sum(running_sum_, file, open_ok)
          /\ save_failed' = ~open_ok
    /\ sum_exact' = [i \in 1..running_sum_[1].bin_size |->
                       (IF sum_exact = << >> THEN 0 ELSE sum_exact[i])
                       + frame_histogram[1].bin_values_32[i]]
    /\ n_decoded' = n_decoded + 1
    /\ mutex_' = "free"
    /\ add_i' = 0
    /\ frame_histogram' = << >>
    /\ pc' = "recv"
    /\ ev' = [NoEvent EXCEPT !.op = "process_frame", !.merge = "merged"]
    /\ UNCHANGED <<exit_code, connected_, line_buffer, total_read, running_sum_,
                   tof_bytes, newline_idx, wire, budget, n_rejected, expected,
                   reader_pc, reader_seen>>

\* get_running_sum, lines 404-407: the lock is taken, the pointer read and the
\* lock released; the caller goes on with the pointer if it is not null.
GetRunningSum ==
    /\ reader_pc = "idle"
    /\ mutex_ = "free"
    /\ running_sum_ # << >>
    /\ reader_pc' = "read"
    /\ reader_seen' = << >>
    /\ ev' = [NoEvent EXCEPT !.op = "get_running_sum"]
    /\ UNCHANGED <<app, wire, budget, history, expected, mutex_, add_i>>

\* get_bin_value_64(i), lines 137-142, through the pointer: the reader reads
\* the next bin; merges counts the samples that bin holds at that moment.
ReadBin ==
    /\ reader_pc = "read"
    /\ Len(reader_seen) < running_sum_[1].bin_size
    /\ LET i == Len(reader_seen) + 1
       IN  reader_seen' = Append(reader_seen,
              [value  |-> running_sum_[1].bin_values_64[i],
               merges |-> n_decoded + (IF pc = "add" /\ i <= add_i THEN 1 ELSE 0)])
    /\ reader_pc' = IF Len(reader_seen) + 1 = running_sum_[1].bin_size
                    THEN "idle" ELSE "read"
    /\ ev' = [NoEvent EXCEPT !.op = "get_bin_value_64"]
    /\ UNCHANGED <<app, wire, budget, history, expected, mutex_, add_i>>

InitReader ==
    /\ Constructed
    /\ wire = << >>
    /\ budget = MaxItems
    /\ expected = << >>

NextReader ==
    \/ Connect
    \/ ProcessFrameEnter
    \/ AddHistogramStep
    \/ ProcessFrameLeave
    \/ GetRunningSum
    \/ ReadBin

SpecReader == InitReader /\ [][NextReader]_vars

-----------------------------------------------------------------------------
(* Properties of the pipeline, checked under Spec *)

\* C1: after every merge, each bin of the running sum is the arithmetic sum of
\* the merged samples' values for that bin, or UINT64_MAX when that sum is
\* larger; a bin never wraps.
C1_SaturatingSum ==
    running_sum_ # << >> =>
        /\ Len(sum_exact) = running_sum_[1].bin_size
        /\ \A i \in 1..running_sum_[1].bin_size :
              running_sum_[1].bin_values_64[i] = Min(sum_exact[i], UINT64_MAX)

\* A bin at UINT64_MAX - 1 has just been merged with 5 and stands at UINT64_MAX.
C1_Witness ==
    /\ ev.merge = "merged"
    /\ ev.sample[1].bin_values_32 = <<5>>
    /\ sum_exact = <<UINT64_MAX - 1 + 5>>
    /\ running_sum_[1].bin_values_64 = <<UINT64_MAX>>

\* C2: a decoded sample whose bin_size differs from that of the existing
\* running sum is rejected as a whole: the running sum (bin_size, edges and
\* values) stays what it was, run() does not return and the loop goes on.
C2_MismatchRejected ==
    [][(/\ running_sum_ # << >>
        /\ ev'.sample # << >>
        /\ ev'.sample[1].bin_size # running_sum_[1].bin_size)
       => (/\ running_sum_' = running_sum_
           /\ ev'.merge = "rejected"
           /\ pc' = "recv"
           /\ connected_'
           /\ exit_code' = -1)]_vars

\* A merge was rejected earlier and a later frame has just been merged.
C2_Witness ==
    /\ n_rejected > 0
    /\ ev.merge = "merged"
    /\ pc = "recv"

\* C5: the file is rewritten by a successful merge and by nothing else, and
\* (when it could be opened) it holds the running sum whenever the loop waits
\* for the next header.
C5_FileFollowsRunningSum ==
    /\ []((pc = "recv" /\ running_sum_ # << >> /\ ~save_failed)
            => file = save_histogram_to_file(running_sum_[1]))
    /\ [][file' # file => ev'.merge = "merged"]_vars

\* A merge has been rejected after two merges, and the file holds the running sum.
C5_Witness ==
    /\ pc = "recv"
    /\ ev.merge = "rejected"
    /\ n_decoded >= 3
    /\ ~save_failed
    /\ file = save_histogram_to_file(running_sum_[1])

\* C6: when recv() reports the peer's close or a socket error while
\* receive_exact waits for the rest of a payload, run() leaves its loop, the
\* frame is not merged, and the running sum and the file stay as they were;
\* nothing happens after run() has left its loop.
C6_PayloadFailureFatal ==
    [][/\ pc # "done"
       /\ (pc = "payload" /\ ev'.recv \in {"closed", "error"})
            => (/\ pc' = "done"
                /\ running_sum_' = running_sum_
                /\ file' = file
                /\ ev'.merge = "none"
                /\ ev'.sample = << >>)]_vars

\* The peer closed in the middle of a payload, after a frame had been merged.
C6_Witness ==
    /\ pc = "done"
    /\ ev.op = "payload_recv"
    /\ ev.recv = "closed"
    /\ running_sum_ # << >>
    /\ file = save_histogram_to_file(running_sum_[1])

\* C7: a receive that reports "try again" (EAGAIN) does not end anything: the
\* connection stays usable and the caller, in the header loop or in
\* receive_exact, stays where it is to receive again.
C7_TryAgainRetried ==
    [][ev'.recv = "again" => (connected_' /\ pc' = pc /\ exit_code' = -1)]_vars

\* C8: a terminated line whose record is absent, or lacks one of the four
\* fields, or has a non-numeric one, is discarded: no sample is constructed,
\* no payload byte is taken, the running sum is untouched and the decoder
\* stays in AwaitingHeader.
C8_OnlyNumericRecordsAccepted ==
    [][(\/ ev'.line \in {"null", "missing"}
        \/ (ev'.line \in {"frame", "throw"} /\ ~ev'.numeric))
       => (/\ ev'.line # "frame"
           /\ ev'.sample = << >>
           /\ ev'.copied = 0
           /\ frame_histogram' = << >>
           /\ running_sum_' = running_sum_
           /\ pc' = "recv")]_vars

WellFormed(h, type) ==
    /\ h.data_type = type
    /\ Len(h.bin_edges) = h.bin_size + 1
    /\ IF type = "FRAME_DATA"
       THEN /\ Len(h.bin_values_32) = h.bin_size
            /\ h.bin_values_64 = << >>
            /\ \A i \in 1..h.bin_size : h.bin_values_32[i] \in 0..UINT32_MAX
       ELSE /\ Len(h.bin_values_64) = h.bin_size
            /\ h.bin_values_32 = << >>
            /\ \A i \in 1..h.bin_size : h.bin_values_64[i] \in 0..UINT64_MAX

\* C10: every histogram of the pipeline, the frame being received, the sample
\* just decoded and the running sum, has bin_size + 1 edges and bin_size values
\* of the width of its type.
C10_HistogramShape ==
    /\ running_sum_ # << >> => WellFormed(running_sum_[1], "RUNNING_SUM")
    /\ frame_histogram # << >> => WellFormed(frame_histogram[1], "FRAME_DATA")
    /\ ev.sample # << >> => WellFormed(ev.sample[1], "FRAME_DATA")

\* A two-bin sample has just been merged into a two-bin running sum.
C10_Witness ==
    /\ ev.merge = "merged"
    /\ ev.sample[1].bin_size = 2
    /\ running_sum_[1].bin_size = 2
    /\ n_decoded >= 2

-----------------------------------------------------------------------------
(* Properties of the decoding of one frame, checked under SpecStream *)

\* C3: after a malformed or truncated header line (of any content) the next
\* valid header and its payload decode to exactly the sample they encode: the
\* first sample decoded is that of the frame.
C3_ResyncDecodesNextFrame ==
    (n_decoded = 1 /\ ev.sample # << >> /\ expected[1].lead # "none")
        => ev.sample[1] = expected[1].sample

\* C4: however recv() splits the header and the payload of a frame, with any
\* part of the payload arriving with the header's newline and the rest through
\* receive_exact in any pieces, the decoded sample is the one the frame encodes.
C4_FragmentationIndependent ==
    (n_decoded = 1 /\ ev.sample # << >> /\ expected[1].lead = "none")
        => ev.sample[1] = expected[1].sample

\* A two-bin frame of two different counts was decoded from bytes that came
\* partly with the newline and partly through receive_exact.
C4_Witness ==
    /\ n_decoded = 1
    /\ ev.op = "payload_recv"
    /\ ev.sample # << >>
    /\ ev.copied > 0
    /\ expected[1].lead = "none"
    /\ ev.sample[1].bin_values_32 = <<MixedValue, UINT32_MAX>>

\* A one-bin frame was decoded from bytes that all came with the newline.
C4_WitnessBuffered ==
    /\ n_decoded = 1
    /\ ev.op = "header_recv"
    /\ ev.copied = 4
    /\ expected[1].lead = "none"
    /\ ev.sample[1].bin_values_32 = <<MixedValue>>

-----------------------------------------------------------------------------
(* Property of the running sum read by another thread, checked under SpecReader *)

\* C9: a thread that gets the running sum through get_running_sum and reads
\* its bins while process_frame runs never sees a bin vector of which some
\* bins hold the current sample and others do not.
C9_ReaderSeesNoPartialMerge ==
    \A i, j \in 1..Len(reader_seen) : reader_seen[i].merges = reader_seen[j].merges

-----------------------------------------------------------------------------
(* Further properties of the pipeline, checked under Spec *)

\* C11: a header whose bin count is zero or negative never yields a decoded
\* sample and never establishes the running sum: every decoded sample and an
\* existing running sum have at least one bin.
C11_RunningSumHasBins ==
    /\ running_sum_ # << >> => running_sum_[1].bin_size >= 1
    /\ ev.sample # << >> => ev.sample[1].bin_size >= 1

\* C12: run() returns 0 when its loop ended because the peer closed the
\* stream while a header was awaited, and 1 when it ended on a socket error,
\* on a failed read of a payload, or when the connection could not be made.
C12_ExitCodeTellsHowLoopEnded ==
    pc = "done" =>
        /\ (ev.op = "header_recv" /\ ev.recv = "closed") => exit_code = 0
        /\ ev.op = "connect" => exit_code = 1
        /\ ev.recv = "error" => exit_code = 1
        /\ (ev.op = "payload_recv" /\ ev.recv = "closed") => exit_code = 1

\* The lines of a file written for histogram h: three comment lines of which
\* the second carries the bin count, one line per bin with edge and value in
\* bin order, and a last line with the last edge alone.
FileLayout(f, h) ==
    /\ Len(f) = h.bin_size + 4
    /\ DOMAIN f[1] = {"text"}
    /\ DOMAIN f[2] = {"text", "bins"}
    /\ f[2].bins = h.bin_size
    /\ DOMAIN f[3] = {"text"}
    /\ \A i \in 1..h.bin_size :
          f[3 + i] = [edge |-> h.bin_edges[i], value |-> h.bin_values_64[i]]
    /\ f[h.bin_size + 4] = [edge |-> h.bin_edges[h.bin_size + 1]]

\* C13: the file written for a running sum of n bins has three comment lines
\* (the second with n), n lines of edge and value in bin order and a last line
\* with the last edge alone; a write that follows a write of the same running
\* sum leaves the same content.
C13_FileLayout ==
    /\ []((running_sum_ # << >> /\ ~save_failed)
            => FileLayout(file, running_sum_[1]))
    /\ [][(/\ ev'.merge = "merged"
           /\ ~save_failed'
           /\ ~save_failed
           /\ running_sum_' = running_sum_) => file' = file]_vars

\* The file has just been written for a two-bin running sum of two merges.
C13_Witness ==
    /\ ev.merge = "merged"
    /\ ~save_failed
    /\ n_decoded - n_rejected = 2
    /\ running_sum_[1].bin_size = 2
    /\ Len(file) = 6
    /\ file[4].value = running_sum_[1].bin_values_64[1]
    /\ file[4].value > 0

\* C14: each pass of receive_exact takes the next bytes of the stream and puts
\* them after those it already holds; it succeeds only when the destination
\* holds exactly the bytes asked for, in stream order, and it fails, with
\* nothing decoded, when recv() reports the peer's close or a socket error
\* before that.
C14_ReceiveExact ==
    [][ev'.op = "payload_recv" =>
        LET needed == frame_histogram[1].bin_size * SizeofUint32 - Len(tof_bytes)
            got == Len(wire) - Len(wire')
            taken == SubSeq(wire, 1, got)
        IN  /\ got \in 0..needed
            /\ wire' = SubSeq(wire, got + 1, Len(wire))
            /\ ev'.sample # << >> =>
                  /\ got = needed
                  /\ Payload(ev'.sample[1].bin_values_32) = tof_bytes \o taken
            /\ (ev'.recv = "data" /\ got < needed) =>
                  /\ pc' = "payload"
                  /\ tof_bytes' = tof_bytes \o taken
                  /\ ev'.sample = << >>
            /\ ev'.recv \in {"closed", "error"} =>
                  /\ got = 0
                  /\ pc' = "done"
                  /\ ev'.sample = << >>
                  /\ running_sum_' = running_sum_]_vars

\* receive_exact has just succeeded for a two-bin payload of which no byte
\* had come with the header.
C14_Witness ==
    /\ ev.op = "payload_recv"
    /\ ev.sample # << >>
    /\ ev.copied = 0
    /\ ev.sample[1].bin_values_32 = <<1, NL>>

\* C15: the bytes that followed the newline in the buffer and were taken as
\* the first bytes of a payload are removed from the buffer with the header
\* line: once a frame is decoded the buffer starts at the first byte of the
\* stream after that frame's payload.
C15_BytesConsumedOnce ==
    [][ev'.sample # << >> =>
        LET bytes == IF ev'.op = "header_recv"
                     THEN line_buffer \o SubSeq(wire, 1, Len(wire) - Len(wire'))
                     ELSE line_buffer
            rest == SubSeq(bytes, FirstNewline(bytes) + 1 + ev'.copied, Len(bytes))
        IN  line_buffer' = IF BufferFull(Len(rest)) THEN << >> ELSE rest]_vars

\* C16: a terminated line that is complete in the buffer is processed without
\* more bytes from the peer: whenever run() calls receive for a header, and
\* when it has returned, the buffer holds no complete line.
C16_NoBufferedLineLeft ==
    pc \in {"recv", "done"} => ~HasNewline(line_buffer)

\* C17: the header buffer is bounded.  When it is full and holds no newline
\* its bytes are dropped, run() stays in its loop and the running sum and the
\* file are untouched; so at every receive of the header loop fewer than
\* MAX_BUFFER_SIZE - 1 bytes are buffered and the buffer is never written
\* past its end.
C17_BufferBounded ==
    /\ [](/\ Len(line_buffer) = total_read
          /\ total_read <= MAX_BUFFER_SIZE - 1
          /\ pc = "recv" => total_read < MAX_BUFFER_SIZE - 1)
    /\ [][(ev'.reset /\ ev'.line = "none")
            => (/\ line_buffer' = << >>
                /\ total_read' = 0
                /\ pc' = "recv"
                /\ exit_code' = -1
                /\ running_sum_' = running_sum_
                /\ file' = file)]_vars

\* The buffer has just been emptied because it was full without a newline,
\* while a running sum exists.
C17_Witness ==
    /\ ev.reset
    /\ ev.line = "none"
    /\ pc = "recv"
    /\ total_read = 0
    /\ running_sum_ # << >>

\* C20: there is no running sum before the first decoded frame; that frame's
\* merge makes it with the frame's bin_size and bin edges; from then on it
\* exists, its bin_size and bin edges never change, and its values change
\* only in a merge of a sample of the same bin_size.
C20_RunningSumLifecycle ==
    /\ [](n_decoded = 0 => running_sum_ = << >>)
    /\ [][(running_sum_ = << >> /\ running_sum_' # << >>)
            => (/\ ev'.merge = "merged"
                /\ n_decoded = 0
                /\ running_sum_'[1].bin_size = ev'.sample[1].bin_size
                /\ running_sum_'[1].bin_edges = ev'.sample[1].bin_edges)]_vars
    /\ [][running_sum_ # << >>
            => (/\ running_sum_' # << >>
                /\ running_sum_'[1].bin_size = running_sum_[1].bin_size
                /\ running_sum_'[1].bin_edges = running_sum_[1].bin_edges
                /\ running_sum_' # running_sum_
                     => (/\ ev'.merge = "merged"
                         /\ ev'.sample[1].bin_size = running_sum_[1].bin_size))]_vars

\* A two-bin running sum with edges 0, 1, 2 has lived through a rejected
\* merge and a line that is no JSON.
C20_Witness ==
    /\ running_sum_ # << >>
    /\ running_sum_[1].bin_edges = <<0, 1, 2>>
    /\ n_rejected > 0
    /\ ev.line = "null"

-----------------------------------------------------------------------------
(* Property of the bin edges, checked under SpecEdges *)

\* C18: for a header with integer bin_width and bin_offset of either sign,
\* edge i of the decoded sample, in clock ticks, is the signed integer
\* bin_offset + i * bin_width, and for bin_width >= 0 the edges do not
\* decrease.
C18_EdgesSigned ==
    ev.sample # << >> =>
        LET decoded == ev.sample[1].bin_edges
            sent == expected[1].sample.bin_edges
        IN  /\ decoded = sent
            /\ sent[2] >= sent[1] =>
                  \A i \in 1..(Len(decoded) - 1) : decoded[i] <= decoded[i + 1]

-----------------------------------------------------------------------------
(* Property of the decoding of the payload, checked under SpecStream *)

\* C19: once the payload of a frame is complete, bin i of the decoded sample
\* is the value of the four payload bytes at offsets 4i..4i+3 read with the
\* most significant byte first, the bins in the order of the bytes.
C19_BigEndianDecode ==
    [][ev'.sample # << >> =>
        LET taken == SubSeq(wire, 1, Len(wire) - Len(wire'))
            bytes == line_buffer \o taken
            n == ev'.sample[1].bin_size
            payload == IF ev'.op = "header_recv"
                       THEN SubSeq(bytes, FirstNewline(bytes) + 1,
                                   FirstNewline(bytes) + n * SizeofUint32)
                       ELSE tof_bytes \o taken
        IN  /\ Len(payload) = n * SizeofUint32
            /\ \A i \in 0..(n - 1) :
                  ev'.sample[1].bin_values_32[i + 1] =
                      ((payload[4 * i + 1] * ByteBase + payload[4 * i + 2]) * ByteBase
                          + payload[4 * i + 3]) * ByteBase + payload[4 * i + 4]]_vars

\* A two-bin payload of 1 and of a count whose four bytes differ was decoded.
C19_Witness ==
    /\ ev.sample # << >>
    /\ expected[1].lead = "none"
    /\ ev.sample[1].bin_values_32 = <<1, MixedValue>>

====
